---- MODULE Spec2Model ----
(***************************************************************************)
(* Model of data/shell-completions/zsh/meson-comp-helper.py: the generator *)
(* of zsh completion functions from meson's build option introspection.    *)
(*                                                                         *)
(* Python strings are sequences of one-character strings.  Generated text  *)
(* is a sequence of pieces (see "Generated text" below).                   *)
(*                                                                         *)
(* Three specifications:                                                   *)
(*   Spec      one run of main(argv);                                      *)
(*   SpecGen   one call of complete_build_options, a record at a time;     *)
(*   SpecPure  fsemic, dsemic, generate_hint and the describe spec applied *)
(*             to one record.                                              *)
(***************************************************************************)
EXTENDS Integers, Sequences, FiniteSets, TLC

(***************************************************************************)
(* Bounds of the model.                                                    *)
(***************************************************************************)
\* Longest option name given to the escaping helpers.
MaxLen == 5
\* Longest description given to the escaping helpers.
MaxDescrLen == 1
\* Largest install_umask value (the hint's four-character form ends at 511).
MaxValue == 520
\* Most records in one call of complete_build_options.
MaxRecords == 3
\* Most command-line arguments of main.
MaxArgs == 3
\* Most records in the document main reads.
MaxMainRecords == 1

(***************************************************************************)
(* Python string primitives.                                               *)
(***************************************************************************)
Digits == <<"0","1","2","3","4","5","6","7","8","9">>

Lower == {"a","b","c","d","e","f","g","h","i","j","k","l","m",
          "n","o","p","q","r","s","t","u","v","w","x","y","z"}

Upper == {"A","B","C","D","E","F","G","H","I","J","K","L","M",
          "N","O","P","Q","R","S","T","U","V","W","X","Y","Z"}

DigitChars == {Digits[i] : i \in 1..10}

\* c.isalnum() for the characters of the model; "é" is alphanumeric too.
IsAlnum(c) == c \in Lower \cup Upper \cup DigitChars \cup {"é"}

\* ord(c) < 0x80 for the characters of the model.
IsAscii(c) == c # "é"

RECURSIVE Concat(_)
Concat(ss) == IF ss = <<>> THEN <<>> ELSE Head(ss) \o Concat(Tail(ss))

RECURSIVE Join(_, _)
Join(sep, ss) ==
  IF ss = <<>> THEN <<>>
  ELSE IF Len(ss) = 1 THEN ss[1]
  ELSE ss[1] \o sep \o Join(sep, Tail(ss))

StartsWith(s, p) == Len(s) >= Len(p) /\ SubSeq(s, 1, Len(p)) = p

\* str.replace(old, new): left to right, non-overlapping occurrences.
RECURSIVE Replace(_, _, _)
Replace(s, old, new) ==
  LET n == Len(old)
      hits == {i \in 1..(Len(s) - n + 1) : SubSeq(s, i, i + n - 1) = old}
  IN IF hits = {} THEN s
     ELSE LET first == CHOOSE i \in hits : \A j \in hits : i <= j
          IN SubSeq(s, 1, first - 1) \o new
             \o Replace(SubSeq(s, first + n, Len(s)), old, new)

\* str(n) of an integer n >= 0.
RECURSIVE DecStr(_)
DecStr(n) == IF n < 10 THEN <<Digits[n + 1]>>
             ELSE DecStr(n \div 10) \o <<Digits[(n % 10) + 1]>>

\* str(n) of any integer.
IntStr(n) == IF n < 0 THEN <<"-">> \o DecStr(0 - n) ELSE DecStr(n)

\* oct(n)[2:] of an integer n >= 0: the octal digits.
RECURSIVE OctStr(_)
OctStr(n) == IF n < 8 THEN <<Digits[n + 1]>>
             ELSE OctStr(n \div 8) \o <<Digits[(n % 8) + 1]>>

DigitVal(c) == CHOOSE d \in 0..9 : Digits[d + 1] = c

\* int(s) of a string of decimal digits.
RECURSIVE ParseDec(_)
ParseDec(s) == IF s = <<>> THEN 0
               ELSE ParseDec(SubSeq(s, 1, Len(s) - 1)) * 10 + DigitVal(s[Len(s)])

\* '{:03}'.format(n): decimal, zero-padded on the left to width 3.
RECURSIVE ZeroPad(_, _)
ZeroPad(s, w) == IF Len(s) >= w THEN s ELSE ZeroPad(<<"0">> \o s, w)

Format03(n) == ZeroPad(DecStr(n), 3)

(***************************************************************************)
(* Escaping helpers (lines 14-23).                                         *)
(***************************************************************************)
\* fsemic without its second replace: a faulty variant the idempotence
\* property must tell from fsemic.
fsemic_NoCollapse(s) == Replace(s, <<":">>, <<"\\", ":">>)

fsemic(s) ==
  Replace(Replace(s, <<":">>, <<"\\", ":">>), <<"\\", "\\", ":">>, <<"\\", ":">>)

\* dsemic with one backslash instead of two (a faulty variant).
dsemic_Single(s) == Replace(s, <<":">>, <<"\\", ":">>)

dsemic(s) == Replace(s, <<":">>, <<"\\", "\\", ":">>)

\* c_style_octal without the conversion to octal (a faulty variant).
c_style_octal_Decimal(i) == <<"0">> \o Format03(i)

c_style_octal(i) == <<"0">> \o Format03(ParseDec(OctStr(i)))

(***************************************************************************)
(* String constants of the program.                                        *)
(***************************************************************************)
S_combo == <<"c","o","m","b","o">>

S_boolean == <<"b","o","o","l","e","a","n">>

S_integer == <<"i","n","t","e","g","e","r">>

S_string == <<"s","t","r","i","n","g">>

S_install_umask == <<"i","n","s","t","a","l","l","_","u","m","a","s","k">>

S_user == <<"u","s","e","r">>

S_core == <<"c","o","r","e">>

S_true == <<"t","r","u","e">>

S_false == <<"f","a","l","s","e">>

S_True == <<"T","r","u","e">>

S_False == <<"F","a","l","s","e">>

S_None == <<"N","o","n","e">>

S_buildoptions == <<"b","u","i","l","d","o","p","t","i","o","n","s">>

(***************************************************************************)
(* JSON values and option records.  A value is a tagged record; an option  *)
(* record lists the keys it has in "has".                                  *)
(***************************************************************************)
IntVal(n) == [k |-> "int", i |-> n, b |-> FALSE, s |-> <<>>]

BoolVal(x) == [k |-> "bool", i |-> 0, b |-> x, s |-> <<>>]

StrVal(x) == [k |-> "str", i |-> 0, b |-> FALSE, s |-> x]

AllKeys == {"name", "type", "value", "section", "description", "choices"}

Opt(n, t, v, sec, d, hasChoices, ch) ==
  [has |-> IF hasChoices THEN AllKeys ELSE AllKeys \ {"choices"},
   name |-> n, type |-> t, value |-> v, section |-> sec,
   description |-> d, choices |-> ch]

Without(o, key) == [o EXCEPT !.has = @ \ {key}]

(***************************************************************************)
(* Exceptions: the type name and str(exc), as format_exception_only shows  *)
(* them.                                                                   *)
(***************************************************************************)
NoExc == [type |-> <<>>, msg |-> <<>>]

\* repr() of a str: single quotes unless the string holds ' and no ".
PyReprStr(s) ==
  LET hasS == \E i \in 1..Len(s) : s[i] = "'"
      hasD == \E i \in 1..Len(s) : s[i] = "\""
      q == IF hasS /\ ~hasD THEN "\"" ELSE "'"
      esc(c) == IF c = "\\" THEN <<"\\", "\\">>
                ELSE IF c = q THEN <<"\\", c>>
                ELSE IF c = "\n" THEN <<"\\", "n">>
                ELSE <<c>>
  IN <<q>> \o Concat([i \in 1..Len(s) |-> esc(s[i])]) \o <<q>>

\* repr() of a JSON value.
PyRepr(v) ==
  CASE v.k = "int" -> IntStr(v.i)
    [] v.k = "bool" -> IF v.b THEN S_True ELSE S_False
    [] v.k = "str" -> PyReprStr(v.s)
    [] OTHER -> S_None

\* Truth value of a JSON value.
Truthy(v) ==
  CASE v.k = "int" -> v.i # 0
    [] v.k = "bool" -> v.b
    [] v.k = "str" -> v.s # <<>>
    [] OTHER -> FALSE

KeyChars(key) ==
  CASE key = "name" -> <<"n","a","m","e">>
    [] key = "type" -> <<"t","y","p","e">>
    [] key = "value" -> <<"v","a","l","u","e">>
    [] key = "section" -> <<"s","e","c","t","i","o","n">>
    [] key = "description" -> <<"d","e","s","c","r","i","p","t","i","o","n">>
    [] OTHER -> <<"c","h","o","i","c","e","s">>

KeyError(key) == [type |-> <<"K","e","y","E","r","r","o","r">>, msg |-> PyReprStr(KeyChars(key))]

TypeErrorOct(v) ==
  [type |-> <<"T","y","p","e","E","r","r","o","r">>,
   msg |-> IF v.k = "str"
           THEN <<"'","s","t","r","'"," ","o","b","j","e","c","t"," ","c","a","n","n","o","t"," ","b","e"," ","i","n","t","e","r","p","r","e","t","e","d"," ","a","s"," ","a","n"," ","i","n","t","e","g","e","r">>
           ELSE <<"'","N","o","n","e","T","y","p","e","'"," ","o","b","j","e","c","t"," ","c","a","n","n","o","t"," ","b","e"," ","i","n","t","e","r","p","r","e","t","e","d"," ","a","s"," ","a","n"," ","i","n","t","e","g","e","r">>]

ValueErrorInt(s) ==
  [type |-> <<"V","a","l","u","e","E","r","r","o","r">>,
   msg |-> <<"i","n","v","a","l","i","d"," ","l","i","t","e","r","a","l"," ","f","o","r"," ","i","n","t","(",")"," ","w","i","t","h"," ","b","a","s","e"," ","1","0",":"," ">> \o PyReprStr(s)]

(***************************************************************************)
(* Record normalizer (lines 26-53).                                        *)
(***************************************************************************)
\* The "no restriction" answer of generate_choices (None).
NoChoices == [restricted |-> FALSE, values |-> <<>>]

Choices(vs) == [restricted |-> TRUE, values |-> vs]

\* generate_choices that answers None for a combo without choices, as
\* `optentry.get('choices') or None` would (a faulty variant).
generate_choices_EmptyIsNone(optentry) ==
  IF optentry.type = S_combo
  THEN IF "choices" \in optentry.has /\ optentry.choices # <<>>
       THEN Choices(optentry.choices) ELSE NoChoices
  ELSE IF optentry.type = S_boolean THEN Choices(<<S_false, S_true>>)
  ELSE NoChoices

generate_choices(optentry) ==
  IF optentry.type = S_combo
  THEN Choices(IF "choices" \in optentry.has THEN optentry.choices ELSE <<>>)
  ELSE IF optentry.type = S_boolean THEN Choices(<<S_false, S_true>>)
  ELSE NoChoices

simple_hint(i) == <<"<">> \o i \o <<">">>

AllDigits(s) == s # <<>> /\ \A i \in 1..Len(s) : s[i] \in DigitChars

\* The exception generate_hint raises on the record, NoExc when it returns.
generate_hint_exc(optentry) ==
  LET v == optentry.value IN
  IF "value" \notin optentry.has THEN KeyError("value")
  ELSE IF "type" \notin optentry.has THEN KeyError("type")
  ELSE IF optentry.type = S_boolean THEN NoExc
  ELSE IF "name" \notin optentry.has THEN KeyError("name")
  ELSE IF optentry.name = S_install_umask
       THEN IF v.k \in {"str", "none"} THEN TypeErrorOct(v)
            ELSE IF v.k = "int" /\ v.i < 0
                 THEN ValueErrorInt(<<"o">> \o OctStr(0 - v.i))
            ELSE NoExc
  ELSE IF optentry.type = S_integer /\ v.k = "str" /\ ~AllDigits(v.s)
       THEN ValueErrorInt(v.s)
  ELSE NoExc

\* int(v) where it does not raise.
PyInt(v) ==
  CASE v.k = "int" -> v.i
    [] v.k = "bool" -> IF v.b THEN 1 ELSE 0
    [] OTHER -> ParseDec(v.s)

generate_hint(optentry) ==
  LET v == optentry.value IN
  IF optentry.type = S_boolean
  THEN simple_hint(IF Truthy(v) THEN S_true ELSE S_false)
  ELSE IF optentry.name = S_install_umask
       THEN simple_hint(c_style_octal(PyInt(v)))
  ELSE IF optentry.type = S_integer THEN simple_hint(IntStr(PyInt(v)))
  ELSE simple_hint(PyRepr(v))

(***************************************************************************)
(* shlex.quote and zsh_tag (lines 11, 56-61).                              *)
(***************************************************************************)
\* The characters shlex.quote leaves alone: [\w@%+=:,./-] in ASCII.
IsShellSafe(c) ==
  c \in Lower \cup Upper \cup DigitChars
        \cup {"_", "@", "%", "+", "=", ":", ",", ".", "/", "-"}

quote(s) ==
  IF s = <<>> THEN <<"'", "'">>
  ELSE IF \A i \in 1..Len(s) : IsShellSafe(s[i]) THEN s
  ELSE <<"'">> \o Replace(s, <<"'">>, <<"'", "\"", "'", "\"", "'">>) \o <<"'">>

asciify(c) == IF IsAscii(c) /\ IsAlnum(c) THEN c ELSE "-"

zsh_tag(k) == [i \in 1..Len(k) |-> asciify(k[i])]

(***************************************************************************)
(* The describe spec of one record (lines 103-106).                        *)
(***************************************************************************)
\* descr = '{} {}'.format(opt['description'], generate_hint(opt))
combined_descr(opt) == opt.description \o <<" ">> \o generate_hint(opt)

\* describe_spec = '{}:{}'.format(fsemic(name), fsemic(descr))
describe_spec(opt) ==
  fsemic(opt.name) \o <<":">> \o fsemic(combined_descr(opt))

(***************************************************************************)
(* Generated text.  The text is a sequence of pieces, each either a        *)
(* literal of the program ("lit"), a word made by shlex.quote ("quoted"),  *)
(* the result of zsh_tag ("tag"), or characters of the input put into a    *)
(* template as they are ("raw").                                           *)
(***************************************************************************)
L(x) == [kind |-> "lit", lit |-> x, chars |-> <<>>]

Q(cs) == [kind |-> "quoted", lit |-> "", chars |-> quote(cs)]

T(cs) == [kind |-> "tag", lit |-> "", chars |-> zsh_tag(cs)]

R(cs) == [kind |-> "raw", lit |-> "", chars |-> cs]

\* generate_compadd_choices (lines 64-95).
generate_compadd_choices(o) ==
  LET decl == <<L("descr="), Q(o.description)>>
      value_descr == <<L("${(qqq)descr//\\%/%%}"),
                       Q(<<" ", "(">> \o o.type \o <<")">>)>>
      choices == generate_choices(o)
      compadd ==
        IF choices.restricted
        THEN << <<L("_wanted")>>, <<L("-V")>>, <<L("build-option-values")>>,
                <<L("expl")>>, value_descr, <<L("compadd -")>>,
                Join(<<L(" ")>>,
                     [i \in 1..Len(choices.values) |-> <<Q(choices.values[i])>>]) >>
        ELSE << <<L("_message")>>, <<L("-e")>>, <<L("build-option-values")>>,
                value_descr >>
  IN <<L("    ")>> \o decl \o <<L("\n"), L("    ")>> \o Join(<<L(" ")>>, compadd)

(***************************************************************************)
(* Python dicts keep insertion order: a sequence of [k, v] entries.        *)
(***************************************************************************)
DictHas(d, key) == \E i \in 1..Len(d) : d[i].k = key

DictIndex(d, key) == CHOOSE i \in 1..Len(d) : d[i].k = key

DictGet(d, key) == d[DictIndex(d, key)].v

\* d[key] = val: an existing key keeps its place.
DictSet(d, key, val) ==
  IF DictHas(d, key) THEN [d EXCEPT ![DictIndex(d, key)].v = val]
  ELSE Append(d, [k |-> key, v |-> val])

\* d.setdefault(key, val)
DictSetDefault(d, key, val) ==
  IF DictHas(d, key) THEN d ELSE Append(d, [k |-> key, v |-> val])

(***************************************************************************)
(* complete_build_options (lines 98-160).                                  *)
(***************************************************************************)
\* The exception one iteration of the loop raises on opt, NoExc if none.
loop_body_exc(opt) ==
  IF "section" \notin opt.has THEN KeyError("section")
  ELSE IF "name" \notin opt.has THEN KeyError("name")
  ELSE IF "description" \notin opt.has THEN KeyError("description")
  ELSE generate_hint_exc(opt)

\* The case branch of one record (lines 110-114).
switch_entry(opt) ==
  <<L("  (\""), R(opt.name), L("\")"), L("\n")>>
  \o generate_compadd_choices(opt) \o <<L("\n"), L("  ;;")>>

\* by_section after one iteration (lines 107-108).
by_section_step(bs, opt) ==
  LET d == DictSetDefault(bs, opt.section, <<>>)
  IN DictSet(d, opt.section, Append(DictGet(d, opt.section), Q(describe_spec(opt))))

\* switch_entries.setdefault(name, ...): the first record of a name wins
\* (a faulty variant).
switch_entries_step_KeepFirst(se, opt) ==
  DictSetDefault(se, opt.name, switch_entry(opt))

\* switch_entries after one iteration (line 110).
switch_entries_step(se, opt) == DictSet(se, opt.name, switch_entry(opt))

\* user_first that yields the dict in its own order (a faulty variant).
user_first_AsIs(d) == d

\* user_first (lines 116-123).
user_first(d) ==
  IF DictHas(d, S_user)
  THEN <<[k |-> S_user, v |-> DictGet(d, S_user)]>>
       \o SelectSeq(d, LAMBDA e : e.k # S_user)
  ELSE d

specs_arr(k) == <<L("__ndescgroup_"), T(k)>>

\* sv of one section (line 132).
alt_decl(k, v) ==
  <<L("  local -a ")>> \o specs_arr(k) \o <<L("=(\n    ")>>
  \o Join(<<L("\n    ")>>, [i \in 1..Len(v) |-> <<v[i]>>]) \o <<L("\n  )")>>

\* word of one section, before it is quoted (lines 134-135).
alt_word(k) ==
  zsh_tag(k) \o <<"-","o","p","t","i","o","n","s",":">> \o k \o <<" ","o","p","t","i","o","n",":","(","("," ","\"","$","{","(","@",")">>
  \o <<"_","_","n","d","e","s","c","g","r","o","u","p","_">> \o zsh_tag(k) \o <<"}","\""," ",")",")">>

\* The text of the two functions (lines 125-160), from the two dicts.
emit_functions(bs, se) ==
  LET ordered == user_first(bs)
      alt_decls == [i \in 1..Len(ordered) |-> alt_decl(ordered[i].k, ordered[i].v)]
      alt_words == [i \in 1..Len(ordered) |-> <<Q(alt_word(ordered[i].k))>>]
      f1 == Join(<<L("\n")>>,
              << <<L("__meson_project_buildoptions() {")>>,
                 <<L("  # This function loops over tag labels itself.")>>,
                 Join(<<L("\n")>>, alt_decls),
                 <<L("  local -a alternative_argv=( \"$@\" )")>>,
                 <<L("  _alternative -O alternative_argv ")>>
                   \o Join(<<L(" ")>>, alt_words),
                 <<L("}\n")>> >>)
      f2 == Join(<<L("\n")>>,
              << <<L("__meson_project_buildoption_choices() {")>>,
                 <<L("  # This function loops over tag labels itself.")>>,
                 <<L("  local m_optname=\"$1\"")>>,
                 <<L("  local descr")>>,
                 <<L("  case \"$m_optname\" in")>>,
                 Join(<<L("\n")>>, [i \in 1..Len(se) |-> se[i].v]),
                 <<L("  *)")>>,
                 <<L("    _message \"unknown option; cannot offer choices\"  ;;")>>,
                 <<L("  esac")>>,
                 <<L("}\n")>> >>)
  IN [alt_decls |-> alt_decls,
      alt_words |-> alt_words,
      funcs |-> Join(<<L("\n")>>, <<f1, f2>>)]

NoGen == [alt_decls |-> <<>>, alt_words |-> <<>>, funcs |-> <<>>]

(***************************************************************************)
(* State.                                                                  *)
(***************************************************************************)
VARIABLES
  \* the helper functions applied to one record:
  p_opt,      \* the record
  p_pc,       \* which helpers have been applied
  p_f1,       \* fsemic(name)
  p_f2,       \* fsemic(fsemic(name))
  p_d,        \* dsemic(name)
  p_spec,     \* the describe spec of the record
  p_hint,     \* generate_hint(record)
  \* one call of complete_build_options:
  i_data,          \* its argument
  idx,             \* records the loop has processed
  by_section,      \* dict: section label -> quoted describe specs
  switch_entries,  \* dict: option name -> case branch
  gen,             \* alt_decls, alt_words and the returned text
  g_pc,            \* "idle", "loop", "raised" or "returned"
  g_exc,           \* the exception raised, if any
  \* one run of main:
  argv,        \* the arguments
  pc,          \* "idle", "start", "load", "generate", "except" or "done"
  istream,     \* "none", "stdin" or "file"
  open_calls,  \* calls of open() on the introspection file
  stream_read, \* whether the input stream has been read
  jd,          \* the decoded JSON document
  exc,         \* the exception caught, if any
  stdout,      \* the text written to standard output
  rc           \* the value main returns (-1: none yet)

pvars == <<p_opt, p_pc, p_f1, p_f2, p_d, p_spec, p_hint>>

gvars == <<i_data, idx, by_section, switch_entries, gen, g_pc, g_exc>>

mvars == <<argv, pc, istream, open_calls, stream_read, jd, exc, stdout, rc>>

vars == <<pvars, gvars, mvars>>

PureIdle ==
  /\ p_opt = Opt(<<>>, <<>>, IntVal(0), <<>>, <<>>, FALSE, <<>>)
  /\ p_pc = "idle"
  /\ p_f1 = <<>>
  /\ p_f2 = <<>>
  /\ p_d = <<>>
  /\ p_spec = <<>>
  /\ p_hint = <<>>

GenIdle ==
  /\ i_data = <<>>
  /\ idx = 0
  /\ by_section = <<>>
  /\ switch_entries = <<>>
  /\ gen = NoGen
  /\ g_pc = "idle"
  /\ g_exc = NoExc

MainIdle ==
  /\ argv = <<>>
  /\ pc = "idle"
  /\ istream = "none"
  /\ open_calls = 0
  /\ stream_read = FALSE
  /\ jd = [ok |-> FALSE, data |-> <<>>]
  /\ exc = NoExc
  /\ stdout = <<>>
  /\ rc = -1

(***************************************************************************)
(* Inputs of the helper functions.                                         *)
(***************************************************************************)
RECURSIVE Strs(_, _)
Strs(alphabet, n) ==
  IF n = 0 THEN {<<>>}
  ELSE LET shorter == Strs(alphabet, n - 1)
       IN shorter \cup {Append(s, c) : s \in {t \in shorter : Len(t) = n - 1},
                                       c \in alphabet}

EscAlphabet == {"a", ":", "\\"}

S_a_colon_b == <<"a",":","b">>

EscNames == Strs(EscAlphabet, MaxLen) \cup {S_a_colon_b}

EscDescrs == Strs(EscAlphabet, MaxDescrLen)

PureOpts ==
  {Opt(n, S_string, StrVal(<<"x">>), S_user, d, FALSE, <<>>) :
      n \in EscNames, d \in EscDescrs}
  \cup
  {Opt(S_install_umask, t, IntVal(v), S_core, <<"m">>, FALSE, <<>>) :
      t \in {S_integer, S_string}, v \in 0..MaxValue}

PureInit ==
  /\ p_opt \in PureOpts
  /\ p_pc = "in"
  /\ p_f1 = <<>>
  /\ p_f2 = <<>>
  /\ p_d = <<>>
  /\ p_spec = <<>>
  /\ p_hint = <<>>
  /\ GenIdle
  /\ MainIdle

ApplyFsemic ==
  /\ p_pc = "in"
  /\ p_f1' = fsemic(p_opt.name)
  /\ p_pc' = "f1"
  /\ UNCHANGED <<p_opt, p_f2, p_d, p_spec, p_hint>>
  /\ UNCHANGED <<gvars, mvars>>

ApplyFsemicAgain ==
  /\ p_pc = "f1"
  /\ p_f2' = fsemic(p_f1)
  /\ p_pc' = "f2"
  /\ UNCHANGED <<p_opt, p_f1, p_d, p_spec, p_hint>>
  /\ UNCHANGED <<gvars, mvars>>

ApplyDsemic ==
  /\ p_pc = "f2"
  /\ p_d' = dsemic(p_opt.name)
  /\ p_pc' = "d"
  /\ UNCHANGED <<p_opt, p_f1, p_f2, p_spec, p_hint>>
  /\ UNCHANGED <<gvars, mvars>>

ApplyHint ==
  /\ p_pc = "d"
  /\ generate_hint_exc(p_opt) = NoExc
  /\ p_hint' = generate_hint(p_opt)
  /\ p_pc' = "hint"
  /\ UNCHANGED <<p_opt, p_f1, p_f2, p_d, p_spec>>
  /\ UNCHANGED <<gvars, mvars>>

BuildDescribeSpec ==
  /\ p_pc = "hint"
  /\ p_spec' = describe_spec(p_opt)
  /\ p_pc' = "spec"
  /\ UNCHANGED <<p_opt, p_f1, p_f2, p_d, p_hint>>
  /\ UNCHANGED <<gvars, mvars>>

PureNext ==
  \/ ApplyFsemic
  \/ ApplyFsemicAgain
  \/ ApplyDsemic
  \/ ApplyHint
  \/ BuildDescribeSpec

SpecPure == PureInit /\ [][PureNext]_vars

(***************************************************************************)
(* One call of complete_build_options, an iteration of its loop at a time. *)
(***************************************************************************)
S_c_dot_d == <<"c",".","d">>

S_c_dash_d == <<"c","-","d">>

S_its == <<"i","t","'","s">>

\* The option records the calls are made of: the three choice states,
\* repeated names, the "user" section, section labels zsh_tag changes,
\* shell metacharacters in every field, and a record without a section.
GenRecords ==
  { Opt(<<"a">>, S_boolean, BoolVal(TRUE), S_user, <<"d">>, FALSE, <<>>),
    Opt(<<"a">>, S_combo, StrVal(<<"x">>), S_core, <<"e", "%">>, TRUE,
        << <<"x">>, <<"y", " ", ";">> >>),
    Opt(<<"b", "\"", "$">>, S_string, StrVal(S_its), S_c_dot_d, S_its, FALSE, <<>>),
    Opt(<<"c">>, S_combo, StrVal(<<>>), S_user, <<"d", ":">>, TRUE, <<>>),
    Opt(<<"c">>, S_combo, StrVal(<<>>), S_core, <<>>, FALSE, <<>>),
    Opt(S_install_umask, S_integer, IntVal(18), S_c_dash_d, <<"m">>, FALSE, <<>>),
    Opt(<<"n">>, <<"x", "'", "y">>, IntVal(7), <<"é", "1", ";">>, <<"&">>, FALSE, <<>>),
    Without(Opt(<<"k">>, S_boolean, BoolVal(FALSE), S_user, <<"d">>, FALSE, <<>>),
            "section") }

RECURSIVE SeqsUpTo(_, _)
SeqsUpTo(S, n) ==
  IF n = 0 THEN {<<>>}
  ELSE LET shorter == SeqsUpTo(S, n - 1)
       IN shorter \cup {Append(s, x) : s \in {t \in shorter : Len(t) = n - 1},
                                       x \in S}

GenInit ==
  /\ i_data \in SeqsUpTo(GenRecords, MaxRecords)
  /\ idx = 0
  /\ by_section = <<>>
  /\ switch_entries = <<>>
  /\ gen = NoGen
  /\ g_pc = "loop"
  /\ g_exc = NoExc
  /\ PureIdle
  /\ MainIdle

\* One iteration of the loop of lines 101-114.
LoopStep ==
  /\ g_pc = "loop"
  /\ idx < Len(i_data)
  /\ LET opt == i_data[idx + 1] IN
       /\ loop_body_exc(opt) = NoExc
       /\ by_section' = by_section_step(by_section, opt)
       /\ switch_entries' = switch_entries_step(switch_entries, opt)
  /\ idx' = idx + 1
  /\ UNCHANGED <<i_data, gen, g_pc, g_exc>>
  /\ UNCHANGED <<pvars, mvars>>

\* An iteration that raises: the call ends with the exception.
LoopRaise ==
  /\ g_pc = "loop"
  /\ idx < Len(i_data)
  /\ loop_body_exc(i_data[idx + 1]) # NoExc
  /\ g_exc' = loop_body_exc(i_data[idx + 1])
  /\ g_pc' = "raised"
  /\ UNCHANGED <<i_data, idx, by_section, switch_entries, gen>>
  /\ UNCHANGED <<pvars, mvars>>

\* Lines 125-160: the text is built from the two dicts and returned.
EmitFunctions ==
  /\ g_pc = "loop"
  /\ idx = Len(i_data)
  /\ gen' = emit_functions(by_section, switch_entries)
  /\ g_pc' = "returned"
  /\ UNCHANGED <<i_data, idx, by_section, switch_entries, g_exc>>
  /\ UNCHANGED <<pvars, mvars>>

GenNext ==
  \/ LoopStep
  \/ LoopRaise
  \/ EmitFunctions

SpecGen == GenInit /\ [][GenNext]_vars

(***************************************************************************)
(* The failure reporter (lines 163-174).                                   *)
(***************************************************************************)
IsSpace(c) == c \in {" ", "\n", "\t"}

\* str.rstrip()
RECURSIVE RStrip(_)
RStrip(s) == IF s # <<>> /\ IsSpace(s[Len(s)])
             THEN RStrip(SubSeq(s, 1, Len(s) - 1)) ELSE s

\* format_exception_only(type(exc), exc): one line, "Type: message\n".
format_exception_only(e) ==
  << IF e.msg = <<>> THEN e.type \o <<"\n">>
     ELSE e.type \o <<":", " ">> \o e.msg \o <<"\n">> >>

stub_message(line) == <<"c","a","n","n","o","t"," ","c","o","m","p","l","e","t","e",":"," ">> \o RStrip(line)

stub_text(msgs) ==
  LET body == Join(<<L("\n")>>,
                   [i \in 1..Len(msgs) |-> <<L("  "), L("_message "), msgs[i]>>])
  IN <<L("__meson_project_buildoptions () {"), L("\n")>> \o body
     \o <<L("\n"), L("}"), L("\n"),
          L("__meson_project_buildoption_choices () {"), L("\n")>> \o body
     \o <<L("\n"), L("}"), L("\n")>>

\* emit_message_on_exception without shlex.quote (a faulty variant).
emit_message_on_exception_Unquoted(e) ==
  LET lines == format_exception_only(e)
  IN stub_text([i \in 1..Len(lines) |-> R(stub_message(lines[i]))])

\* The text emit_message_on_exception prints.
emit_message_on_exception(e) ==
  LET lines == format_exception_only(e)
  IN stub_text([i \in 1..Len(lines) |-> Q(stub_message(lines[i]))])

(***************************************************************************)
(* _getopts (lines 177-207).                                               *)
(***************************************************************************)
Unset == [set |-> FALSE, s |-> <<>>]

Set(x) == [set |-> TRUE, s |-> x]

\* The loop of lines 186-193 from argument i on.
RECURSIVE getopts_loop(_, _, _, _, _)
getopts_loop(args, i, mode, builddir, posopts) ==
  IF i > Len(args) THEN [mode |-> mode, builddir |-> builddir]
  ELSE IF StartsWith(args[i], <<"-", "-">>)
       THEN getopts_loop(args, i + 1, Set(SubSeq(args[i], 3, Len(args[i]))),
                         builddir, posopts)
       ELSE IF posopts > 0
            THEN getopts_loop(args, i + 1, mode, builddir, posopts)
            ELSE getopts_loop(args, i + 1, mode, Set(args[i]), posopts + 1)

\* os.path.join(a, b) on POSIX, b relative.
path_join(a, b) ==
  IF a = <<>> \/ a[Len(a)] = "/" THEN a \o b ELSE a \o <<"/">> \o b

path_from_builddir(builddir, mode) ==
  path_join(path_join(builddir, <<"m","e","s","o","n","-","i","n","f","o">>),
            <<"i","n","t","r","o","-">> \o mode \o <<".","j","s","o","n">>)

ValueError(msg) == [type |-> <<"V","a","l","u","e","E","r","r","o","r">>, msg |-> msg]

FileNotFoundError(p) ==
  [type |-> <<"F","i","l","e","N","o","t","F","o","u","n","d","E","r","r","o","r">>,
   msg |-> <<"[","E","r","r","n","o"," ","2","]"," ","N","o"," ","s","u","c","h"," ","f","i","l","e"," ","o","r"," ","d","i","r","e","c","t","o","r","y",":"," ">> \o PyReprStr(p)]

JSONDecodeError ==
  [type |-> <<"j","s","o","n",".","d","e","c","o","d","e","r",".","J","S","O","N","D","e","c","o","d","e","E","r","r","o","r">>,
   msg |-> <<"E","x","p","e","c","t","i","n","g"," ","v","a","l","u","e",":"," ","l","i","n","e"," ","1"," ","c","o","l","u","m","n"," ","1"," ","(","c","h","a","r"," ","0",")">>]

\* Which stream lines 198-202 acquire: standard input, or open(p).
acquire_of(builddir) ==
  IF ~builddir.set \/ builddir.s = <<"-">> THEN "stdin" ELSE "open"

\* _getopts that acquires the stream before it checks the mode (a faulty
\* variant).
getopts_AcquireFirst(args) ==
  LET r == getopts_loop(args, 1, Unset, Unset, 0)
      e == IF ~r.mode.set
           THEN ValueError(<<"c","o","m","p","l","e","t","i","o","n"," ","m","o","d","e"," ","i","s"," ","n","o","t"," ","s","p","e","c","i","f","i","e","d">>)
           ELSE IF r.mode.s # S_buildoptions
           THEN ValueError(<<"u","n","k","n","o","w","n"," ","c","o","m","p","l","e","t","i","o","n"," ","m","o","d","e",":"," ">> \o r.mode.s)
           ELSE NoExc
  IN [exc |-> e, mode |-> r.mode, builddir |-> r.builddir,
      acquire |-> acquire_of(r.builddir),
      path |-> path_from_builddir(r.builddir.s, r.mode.s)]

\* _getopts up to the acquisition of the stream: the exception of the mode
\* checks (lines 194-197), else the stream to acquire.
getopts(args) ==
  LET r == getopts_loop(args, 1, Unset, Unset, 0)
      e == IF ~r.mode.set
           THEN ValueError(<<"c","o","m","p","l","e","t","i","o","n"," ","m","o","d","e"," ","i","s"," ","n","o","t"," ","s","p","e","c","i","f","i","e","d">>)
           ELSE IF r.mode.s # S_buildoptions
           THEN ValueError(<<"u","n","k","n","o","w","n"," ","c","o","m","p","l","e","t","i","o","n"," ","m","o","d","e",":"," ">> \o r.mode.s)
           ELSE NoExc
  IN [exc |-> e, mode |-> r.mode, builddir |-> r.builddir,
      acquire |-> IF e # NoExc THEN "none" ELSE acquire_of(r.builddir),
      path |-> IF e # NoExc THEN <<>>
               ELSE path_from_builddir(r.builddir.s, r.mode.s)]

(***************************************************************************)
(* complete_build_options as main calls it: the whole loop, then the text. *)
(***************************************************************************)
RECURSIVE loop_from(_, _, _, _)
loop_from(data, i, bs, se) ==
  IF i > Len(data) THEN [exc |-> NoExc, bs |-> bs, se |-> se]
  ELSE IF loop_body_exc(data[i]) # NoExc
       THEN [exc |-> loop_body_exc(data[i]), bs |-> bs, se |-> se]
       ELSE loop_from(data, i + 1, by_section_step(bs, data[i]),
                      switch_entries_step(se, data[i]))

complete_build_options(data) ==
  LET r == loop_from(data, 1, <<>>, <<>>)
  IN IF r.exc # NoExc THEN [exc |-> r.exc, funcs |-> <<>>]
     ELSE [exc |-> NoExc, funcs |-> emit_functions(r.bs, r.se).funcs]

(***************************************************************************)
(* One run of main (lines 210-221).                                        *)
(***************************************************************************)
T_buildoptions == <<"-", "-">> \o S_buildoptions

T_other == <<"-", "-", "x", "'", "y", " ">>

T_bare == <<"-", "-">>

T_stdin == <<"-">>

T_dir == <<"d">>

ArgTokens == {T_buildoptions, T_other, T_bare, T_stdin, T_dir}

MainInit ==
  /\ argv \in SeqsUpTo(ArgTokens, MaxArgs)
  /\ pc = "start"
  /\ istream = "none"
  /\ open_calls = 0
  /\ stream_read = FALSE
  /\ jd = [ok |-> FALSE, data |-> <<>>]
  /\ exc = NoExc
  /\ stdout = <<>>
  /\ rc = -1
  /\ PureIdle
  /\ GenIdle

\* What _getopts has acquired when it ends, by return or by exception.
Acquired(g) ==
  /\ istream' = CASE g.acquire = "stdin" -> "stdin"
                  [] g.acquire = "open" -> "file"
                  [] OTHER -> "none"
  /\ open_calls' = IF g.acquire = "open" THEN open_calls + 1 ELSE open_calls

\* _getopts raises in its mode checks.
GetoptsUsageError ==
  /\ pc = "start"
  /\ getopts(argv).exc # NoExc
  /\ Acquired(getopts(argv))
  /\ exc' = getopts(argv).exc
  /\ pc' = "except"
  /\ UNCHANGED <<argv, stream_read, jd, stdout, rc>>
  /\ UNCHANGED <<pvars, gvars>>

\* _getopts returns sys.stdin.
GetoptsStdin ==
  /\ pc = "start"
  /\ getopts(argv).exc = NoExc
  /\ getopts(argv).acquire = "stdin"
  /\ Acquired(getopts(argv))
  /\ pc' = "load"
  /\ UNCHANGED <<argv, stream_read, jd, exc, stdout, rc>>
  /\ UNCHANGED <<pvars, gvars>>

\* _getopts opens the introspection file and returns it.
GetoptsOpen ==
  /\ pc = "start"
  /\ getopts(argv).exc = NoExc
  /\ getopts(argv).acquire = "open"
  /\ Acquired(getopts(argv))
  /\ pc' = "load"
  /\ UNCHANGED <<argv, stream_read, jd, exc, stdout, rc>>
  /\ UNCHANGED <<pvars, gvars>>

\* open() raises: the file is not there.
GetoptsOpenFails ==
  /\ pc = "start"
  /\ getopts(argv).exc = NoExc
  /\ getopts(argv).acquire = "open"
  /\ open_calls' = open_calls + 1
  /\ exc' = FileNotFoundError(getopts(argv).path)
  /\ pc' = "except"
  /\ UNCHANGED <<argv, istream, stream_read, jd, stdout, rc>>
  /\ UNCHANGED <<pvars, gvars>>

\* json.load returns the document (lines 215-216).
LoadJson ==
  /\ pc = "load"
  /\ \E data \in SeqsUpTo(GenRecords, MaxMainRecords) :
       jd' = [ok |-> TRUE, data |-> data]
  /\ stream_read' = TRUE
  /\ pc' = "generate"
  /\ UNCHANGED <<argv, istream, open_calls, exc, stdout, rc>>
  /\ UNCHANGED <<pvars, gvars>>

\* json.load raises: the stream holds no JSON document.
LoadJsonFails ==
  /\ pc = "load"
  /\ stream_read' = TRUE
  /\ exc' = JSONDecodeError
  /\ pc' = "except"
  /\ UNCHANGED <<argv, istream, open_calls, jd, stdout, rc>>
  /\ UNCHANGED <<pvars, gvars>>

\* Lines 217-218: the text is generated, printed, and main returns 0.
GenerateAndPrint ==
  /\ pc = "generate"
  /\ complete_build_options(jd.data).exc = NoExc
  /\ stdout' = stdout \o complete_build_options(jd.data).funcs \o <<L("\n")>>
  /\ rc' = 0
  /\ pc' = "done"
  /\ UNCHANGED <<argv, istream, open_calls, stream_read, jd, exc>>
  /\ UNCHANGED <<pvars, gvars>>

\* complete_build_options raises: nothing is printed.
GenerateRaises ==
  /\ pc = "generate"
  /\ complete_build_options(jd.data).exc # NoExc
  /\ exc' = complete_build_options(jd.data).exc
  /\ pc' = "except"
  /\ UNCHANGED <<argv, istream, open_calls, stream_read, jd, stdout, rc>>
  /\ UNCHANGED <<pvars, gvars>>

\* Lines 219-221: the stub pair is printed and main returns 1.
HandleException ==
  /\ pc = "except"
  /\ stdout' = stdout \o emit_message_on_exception(exc)
  /\ rc' = 1
  /\ pc' = "done"
  /\ UNCHANGED <<argv, istream, open_calls, stream_read, jd, exc>>
  /\ UNCHANGED <<pvars, gvars>>

Next ==
  \/ GetoptsUsageError
  \/ GetoptsStdin
  \/ GetoptsOpen
  \/ GetoptsOpenFails
  \/ LoadJson
  \/ LoadJsonFails
  \/ GenerateAndPrint
  \/ GenerateRaises
  \/ HandleException

Spec == MainInit /\ [][Next]_vars

(***************************************************************************)
(* What the properties below are stated with.                              *)
(***************************************************************************)
\* The number of backslashes right before position i of s.
BackslashRun(s, i) ==
  LET starts == {j \in 1..i : \A k \in j..(i - 1) : s[k] = "\\"}
  IN i - (CHOOSE j \in starts : \A k \in starts : j <= k)

\* s with each ':' replaced by r, character by character.
EachColon(s, r) ==
  Concat([i \in 1..Len(s) |-> IF s[i] = ":" THEN r ELSE <<s[i]>>])

\* How the shell reads one character in quoting state st: "u" unquoted,
\* "s" inside single quotes, "d" inside double quotes.  ok is FALSE when
\* the character is read as syntax other than a quote.
ShellStep(st, c) ==
  CASE st = "u" /\ c = "'" -> [st |-> "s", ok |-> TRUE, out |-> <<>>]
    [] st = "u" /\ c = "\"" -> [st |-> "d", ok |-> TRUE, out |-> <<>>]
    [] st = "u" /\ c \notin {"'", "\""} ->
         [st |-> "u", ok |-> IsShellSafe(c), out |-> <<c>>]
    [] st = "s" /\ c = "'" -> [st |-> "u", ok |-> TRUE, out |-> <<>>]
    [] st = "s" /\ c # "'" -> [st |-> "s", ok |-> TRUE, out |-> <<c>>]
    [] st = "d" /\ c = "\"" -> [st |-> "u", ok |-> TRUE, out |-> <<>>]
    [] OTHER -> [st |-> "d", ok |-> c \notin {"$", "\\", "!"}, out |-> <<c>>]

\* How a stretch of text is read is a record: for each quoting state it may
\* start in (fields u, s, d), the state it ends in, ok, and the characters.
ShellFrom(m, st) == CASE st = "u" -> m.u [] st = "s" -> m.s [] OTHER -> m.d

ShellThen(x, y) ==
  [st |-> y.st, ok |-> x.ok /\ y.ok, out |-> x.out \o y.out]

\* Reading one stretch of text (a), then the next (b).
ShellCompose(a, b) ==
  [u |-> ShellThen(a.u, ShellFrom(b, a.u.st)),
   s |-> ShellThen(a.s, ShellFrom(b, a.s.st)),
   d |-> ShellThen(a.d, ShellFrom(b, a.d.st))]

\* How the shell reads cs[lo..hi].  The halves are bound as values, so that
\* each is computed once.
RECURSIVE ShellSeg(_, _, _)
ShellSeg(cs, lo, hi) ==
  IF lo > hi
  THEN [u |-> [st |-> "u", ok |-> TRUE, out |-> <<>>],
        s |-> [st |-> "s", ok |-> TRUE, out |-> <<>>],
        d |-> [st |-> "d", ok |-> TRUE, out |-> <<>>]]
  ELSE IF lo = hi
  THEN [u |-> ShellStep("u", cs[lo]), s |-> ShellStep("s", cs[lo]),
        d |-> ShellStep("d", cs[lo])]
  ELSE CHOOSE r \in {ShellCompose(a, b) :
                       a \in {ShellSeg(cs, lo, (lo + hi) \div 2)},
                       b \in {ShellSeg(cs, ((lo + hi) \div 2) + 1, hi)}} : TRUE

ShellRead(cs) == CHOOSE r \in {ShellSeg(v, 1, Len(v)).u : v \in {cs}} : TRUE

\* cs is read by the shell as exactly one word, no character as syntax.
IsOneShellWord(cs) ==
  \E r \in {ShellRead(cs)} : cs # <<>> /\ r.ok /\ r.st = "u"

\* The word the shell reads from cs.
ShellWordValue(cs) == ShellRead(cs).out

OctalDigit(v, place) == Digits[((v \div place) % 8) + 1]

UmaskMax == 8 * 8 * 8 - 1

(***************************************************************************)
(* Properties of the helper functions, checked under SpecPure.             *)
(***************************************************************************)
\* C5: fsemic is idempotent, fsemic(fsemic(s)) = fsemic(s), for every string
\* over 'a', ':' and '\', and fsemic("a:b") is a, one backslash, ':', b.
C5_FsemicIdempotent ==
  /\ p_pc \in {"f2", "d", "hint", "spec"} => p_f2 = p_f1
  /\ p_pc \in {"f1", "f2", "d", "hint", "spec"} /\ p_opt.name = S_a_colon_b
       => p_f1 = <<"a", "\\", ":", "b">>

\* A name with a colon after two backslashes and a colon after a colon has
\* been escaped twice.
C5_Witness ==
  /\ p_pc = "f2"
  /\ p_opt.name = <<"\\", "\\", ":", ":">>
  /\ p_f2 = p_f1

\* C7: for the non-boolean option install_umask with an integer value v,
\* 0 <= v <= 0o777, generate_hint gives '<', '0', the three octal digits of
\* v, '>'; for v = 18 it gives <0022>.
C7_UmaskHint ==
  LET v == p_opt.value IN
  p_pc \in {"hint", "spec"} /\ p_opt.name = S_install_umask
    /\ p_opt.type # S_boolean /\ v.k = "int" /\ 0 <= v.i /\ v.i <= UmaskMax
  => /\ p_hint = <<"<", "0", OctalDigit(v.i, 64), OctalDigit(v.i, 8),
                   OctalDigit(v.i, 1), ">">>
     /\ v.i = 18 => p_hint = <<"<", "0", "0", "2", "2", ">">>

\* The hint of install_umask = 18 has been computed.
C7_Witness ==
  /\ p_pc = "hint"
  /\ p_opt.name = S_install_umask
  /\ p_opt.type = S_integer
  /\ p_opt.value = IntVal(18)
  /\ p_hint = <<"<", "0", "0", "2", "2", ">">>

C9_SeparatorUnambiguous ==
  p_pc = "spec" =>
    \A i \in 1..Len(p_spec) :
      p_spec[i] = ":" =>
        IF i = Len(p_f1) + 1
        THEN BackslashRun(p_spec, i) % 2 = 0
        ELSE BackslashRun(p_spec, i) % 2 = 1

(***************************************************************************)
(* Properties of complete_build_options, checked under SpecGen.            *)
(***************************************************************************)
\* The records of section label l, in input order.
RecordsOf(data, l) == SelectSeq(data, LAMBDA r : r.section = l)

\* The distinct section labels of data in order of first appearance.
FirstSeen(data) ==
  LET firsts == {i \in 1..Len(data) :
                   \A j \in 1..(i - 1) : data[j].section # data[i].section}
      nth(n) == CHOOSE i \in firsts : Cardinality({j \in firsts : j <= i}) = n
  IN [n \in 1..Cardinality(firsts) |-> data[nth(n)].section]

\* "user" first if any record has it, then the other labels as first seen.
SectionOrder(data) ==
  IF \E i \in 1..Len(data) : data[i].section = S_user
  THEN <<S_user>> \o SelectSeq(FirstSeen(data), LAMBDA l : l # S_user)
  ELSE FirstSeen(data)

\* The array declaration of section l: one spec per record, in input order.
ExpectedDecl(data, l) ==
  LET rs == RecordsOf(data, l)
  IN alt_decl(l, [i \in 1..Len(rs) |-> Q(describe_spec(rs[i]))])

LitAt(text, x) == {i \in 1..Len(text) : text[i] = L(x)}

\* The number of specs the declaration holds.
SpecCount(decl) == Cardinality({i \in 1..Len(decl) : decl[i].kind = "quoted"})

RECURSIVE SumSpecs(_)
SumSpecs(decls) == IF decls = <<>> THEN 0
                   ELSE SpecCount(Head(decls)) + SumSpecs(Tail(decls))

\* C3: __meson_project_buildoptions declares one array per distinct section
\* label and one alternative clause per distinct label, both in the order
\* "user" first, then first appearance; each array holds one describe spec
\* per record of its section, in input order; the specs are as many as the
\* records.
C3_SectionsUserFirst ==
  g_pc = "returned" =>
    LET order == SectionOrder(i_data)
        decls == [n \in 1..Len(order) |-> ExpectedDecl(i_data, order[n])]
        words == [n \in 1..Len(order) |-> <<Q(alt_word(order[n]))>>]
        text == gen.funcs
    IN /\ gen.alt_decls = decls
       /\ gen.alt_words = words
       /\ SumSpecs(gen.alt_decls) = Len(i_data)
       /\ SubSeq(text, 5, 4 + Len(Join(<<L("\n")>>, decls)))
            = Join(<<L("\n")>>, decls)
       /\ \E p \in LitAt(text, "  _alternative -O alternative_argv ") :
            SubSeq(text, p + 1, p + Len(Join(<<L(" ")>>, words)))
              = Join(<<L(" ")>>, words)

\* Three records of three sections, the "user" one last.
C3_Witness ==
  /\ g_pc = "returned"
  /\ Len(i_data) = 3
  /\ i_data[1].section = S_core
  /\ i_data[2].section = S_c_dot_d
  /\ i_data[3].section = S_user
  /\ gen.alt_words = << <<Q(alt_word(S_user))>>, <<Q(alt_word(S_core))>>,
                        <<Q(alt_word(S_c_dot_d))>> >>

\* The values the branch offers after 'compadd -', as the shell reads them.
Offered(branch) ==
  LET p == CHOOSE i \in LitAt(branch, "compadd -") : TRUE
      qs == SelectSeq(SubSeq(branch, p + 1, Len(branch)),
                      LAMBDA x : x.kind = "quoted")
  IN [i \in 1..Len(qs) |-> ShellWordValue(qs[i].chars)]

IsCompaddBranch(branch) ==
  /\ LitAt(branch, "_wanted") # {}
  /\ Cardinality(LitAt(branch, "compadd -")) = 1
  /\ LitAt(branch, "_message") = {}

IsMessageBranch(branch) ==
  /\ LitAt(branch, "_message") # {}
  /\ LitAt(branch, "_wanted") = {}
  /\ LitAt(branch, "compadd -") = {}

\* C4: the branch of a boolean record is a `_wanted ... compadd -` branch
\* offering 'false' then 'true'; of a combo record, one offering the declared
\* choices in order, none when the list is empty or absent; of any other
\* record, a `_message` branch offering nothing.
C4_ChoiceStates ==
  g_pc \in {"loop", "returned"} /\ idx >= 1 =>
    LET opt == i_data[idx]
        branch == DictGet(switch_entries, opt.name)
    IN CASE opt.type = S_boolean ->
              IsCompaddBranch(branch) /\ Offered(branch) = <<S_false, S_true>>
         [] opt.type = S_combo ->
              /\ IsCompaddBranch(branch)
              /\ Offered(branch) = IF "choices" \in opt.has THEN opt.choices
                                   ELSE <<>>
         [] OTHER -> IsMessageBranch(branch)

\* A combo record without a choices field has got its branch.
C4_Witness ==
  /\ g_pc = "loop"
  /\ idx >= 1
  /\ i_data[idx].type = S_combo
  /\ "choices" \notin i_data[idx].has
  /\ IsCompaddBranch(DictGet(switch_entries, i_data[idx].name))
  /\ Offered(DictGet(switch_entries, i_data[idx].name)) = <<>>

\* The last record of data named n.
LastNamed(data, n) ==
  data[CHOOSE i \in 1..Len(data) :
         /\ data[i].name = n
         /\ \A j \in (i + 1)..Len(data) : data[j].name # n]

\* C10: the case statement holds one named branch per distinct option name,
\* the branch of a repeated name is built from the last record of that name,
\* and the catch-all branch comes after every named branch.
C10_LastWriteWins ==
  g_pc = "returned" =>
    LET text == gen.funcs
        named == {i \in 1..Len(text) : text[i].kind = "raw"}
        names == {i_data[i].name : i \in 1..Len(i_data)}
    IN /\ {text[i].chars : i \in named} = names
       /\ Cardinality(named) = Cardinality(names)
       /\ Cardinality(LitAt(text, "  *)")) = 1
       /\ \A i \in named :
            LET entry == switch_entry(LastNamed(i_data, text[i].chars))
            IN /\ SubSeq(text, i - 1, i - 2 + Len(entry)) = entry
               /\ \A c \in LitAt(text, "  *)") : c > i - 2 + Len(entry)

\* Two different records of the same name, then the text.
C10_Witness ==
  /\ g_pc = "returned"
  /\ Len(i_data) >= 2
  /\ i_data[1].name = i_data[2].name
  /\ i_data[1].type = S_boolean
  /\ i_data[2].type = S_combo
  /\ IsCompaddBranch(DictGet(switch_entries, i_data[1].name))
  /\ Offered(DictGet(switch_entries, i_data[1].name)) = i_data[2].choices

\* A piece puts no character of the input where the shell reads syntax: a
\* quoted piece is one shell word, a tag piece is ASCII alphanumerics and
\* '-', and a raw piece, which stands between double quotes, holds none of
\* the characters the shell interprets there.
PieceSafe(piece) ==
  CASE piece.kind = "quoted" -> IsOneShellWord(piece.chars)
    [] piece.kind = "tag" ->
         \A i \in 1..Len(piece.chars) :
           piece.chars[i] \in Lower \cup Upper \cup DigitChars \cup {"-"}
    [] piece.kind = "raw" ->
         \A i \in 1..Len(piece.chars) :
           piece.chars[i] \notin {"\"", "$", "\\", "!"}
    [] OTHER -> TRUE

\* C1: in the text complete_build_options returns, every character that
\* comes from the input is inside a shlex.quote word or a zsh_tag fragment
\* and is never read by the shell as syntax, the case patterns included.
C1_InjectionSafe ==
  g_pc = "returned" =>
    \A i \in 1..Len(gen.funcs) : PieceSafe(gen.funcs[i])

(***************************************************************************)
(* Properties of a run of main, checked under Spec.                        *)
(***************************************************************************)
\* The text with each well-formed quoted word shown as "<word>".
Shape(text) ==
  [i \in 1..Len(text) |->
     IF text[i].kind = "lit" THEN text[i].lit
     ELSE IF text[i].kind = "quoted" /\ IsOneShellWord(text[i].chars)
     THEN "<word>" ELSE "<unquoted>"]

\* The stub pair: the two functions, each body one `_message` statement
\* whose argument is one quoted word reading "cannot complete: ...".
IsStubPair(text) ==
  /\ Shape(text) =
       <<"__meson_project_buildoptions () {", "\n",
         "  ", "_message ", "<word>", "\n", "}", "\n",
         "__meson_project_buildoption_choices () {", "\n",
         "  ", "_message ", "<word>", "\n", "}", "\n">>
  /\ \A i \in {5, 13} :
       StartsWith(ShellWordValue(text[i].chars), <<"c","a","n","n","o","t"," ","c","o","m","p","l","e","t","e",":"," ">>)

\* The full pair: what complete_build_options returns for the document.
IsFullPair(text) ==
  /\ jd.ok
  /\ complete_build_options(jd.data).exc = NoExc
  /\ text = complete_build_options(jd.data).funcs \o <<L("\n")>>
  /\ Cardinality(LitAt(text, "__meson_project_buildoptions() {")) = 1
  /\ Cardinality(LitAt(text, "__meson_project_buildoption_choices() {")) = 1

\* C2: a run of main ends either with the full pair written and 0 returned,
\* or, an exception having been raised, with the stub pair written and 1
\* returned; nothing is written before that, so no run writes both pairs,
\* part of one, or nothing.
C2_TwoOutcomes ==
  /\ pc # "done" => stdout = <<>> /\ rc = -1
  /\ pc = "done" =>
       \/ rc = 0 /\ exc = NoExc /\ IsFullPair(stdout)
       \/ rc = 1 /\ exc # NoExc /\ IsStubPair(stdout) /\ ~IsFullPair(stdout)

\* A run whose generation raised KeyError has ended with the stub pair.
C2_Witness ==
  /\ pc = "done"
  /\ rc = 1
  /\ jd.ok
  /\ exc = KeyError("section")
  /\ IsStubPair(stdout)

\* The arguments select the mode 'buildoptions': the last flag is it.
ModeAccepted(args) ==
  \E i \in 1..Len(args) :
    /\ args[i] = <<"-", "-">> \o S_buildoptions
    /\ \A j \in (i + 1)..Len(args) : ~StartsWith(args[j], <<"-", "-">>)

\* C6: when the arguments hold no mode flag, or the last one names another
\* mode than 'buildoptions', no stream is ever acquired or read, and main
\* ends returning 1 with the stub pair written.
C6_NoInputOnBadMode ==
  ~ModeAccepted(argv) =>
    /\ open_calls = 0
    /\ istream = "none"
    /\ ~stream_read
    /\ pc \in {"start", "except", "done"}
    /\ pc = "done" => rc = 1 /\ IsStubPair(stdout)

\* A run given a directory and an unknown mode has ended.
C6_Witness ==
  /\ pc = "done"
  /\ argv = <<T_dir, T_other>>
  /\ rc = 1
  /\ open_calls = 0
  /\ ~stream_read

====
